---- MODULE Spec2Model ----
(***************************************************************************)
(* A model of mimesis/utils.py: the locale data resolver (pull and its     *)
(* lru_cache, get_data, update_dict) and download_image.                   *)
(*                                                                         *)
(* Strings that the code inspects character by character (locale codes,    *)
(* urls) are sequences of one-character strings.  JSON documents are       *)
(* tagged values: [t |-> "num"|"seq"|"map", v |-> ...]; a raised exception *)
(* is the tagged value [t |-> "err", v |-> <exception class>].             *)
(* Python objects that the code mutates in place live in a heap indexed by *)
(* object references, so that aliasing between cache entries is visible.   *)
(***************************************************************************)
EXTENDS Integers, Sequences, FiniteSets, TLC

VARIABLES
    fs,        \* the data directory: <<locale dir, file>> -> file content
    cache,     \* the lru_cache of pull: <<file, locale as passed>> -> object ref
    heap,      \* object ref -> the document the object currently holds
    last,      \* what the last sequential pull call did and returned
    th,        \* per thread: the position and locals of its pull call
    sslCtx,    \* ssl._create_default_https_context: "verified" | "unverified"
    saved,     \* local files written by urlretrieve
    dl,        \* what the last download_image call did and returned
    mInitial,  \* update_dict checked alone: its first argument
    mOther,    \* update_dict checked alone: its second argument
    mResult    \* update_dict checked alone: its outcome

vars == <<fs, cache, heap, last, th, sslCtx, saved, dl, mInitial, mOther, mResult>>

(***************************************************************************)
(* Bounds                                                                  *)
(***************************************************************************)
MaxNum == 2          \* scalar leaves of generated documents are 1..MaxNum
NumThreads == 2      \* threads calling pull concurrently

(***************************************************************************)
(* Documents                                                               *)
(***************************************************************************)
Num(n) == [t |-> "num", v |-> n]
SeqDoc(s) == [t |-> "seq", v |-> s]
Map(f) == [t |-> "map", v |-> f]
Err(kind) == [t |-> "err", v |-> kind]
None == [t |-> "none", v |-> 0]

EmptyMap == Map([k \in {} |-> None])
IsMapping(d) == d.t = "map"
IsErr(d) == d.t = "err"
HasKey(d, k) == IsMapping(d) /\ k \in DOMAIN d.v

DocKeys == {"a", "b"}
Leaves == {Num(n) : n \in 1..MaxNum} \cup {SeqDoc(<<1>>)}
MapsOver(values) == UNION {{Map(f) : f \in [ks -> values]} : ks \in SUBSET DocKeys}
Maps1 == MapsOver(Leaves)
Maps2 == MapsOver(Leaves \cup Maps1)

\* dict iteration order: documents are modelled with their keys in
\* alphabetical order
KeyOrder(ks) ==
    (IF "a" \in ks THEN <<"a">> ELSE <<>>) \o (IF "b" \in ks THEN <<"b">> ELSE <<>>)

\* initial[key] = val on a dict
SetItem(initial, key, val) ==
    Map([k \in (DOMAIN initial.v) \cup {key} |-> IF k = key THEN val ELSE initial.v[k]])

\* initial.get(key, {})
GetOrEmpty(initial, key) ==
    IF key \in DOMAIN initial.v THEN initial.v[key] ELSE EmptyMap

RECURSIVE UpdateItems(_, _, _)
\* the loop of update_dict over the remaining keys of other.items(), on an
\* interpreter that has collections.Mapping (Python before 3.10)
UpdateItems(initial, other, keys) ==
    IF keys = <<>> THEN initial
    ELSE LET key == Head(keys)
             value == other.v[key]
         IN IF IsMapping(value)
            THEN IF ~IsMapping(initial)       \* isinstance(value, collections.Mapping)
                 THEN Err("AttributeError")   \* initial.get on an int, list, ...
                 ELSE LET r == UpdateItems(GetOrEmpty(initial, key), value,
                                           KeyOrder(DOMAIN value.v))
                      IN IF IsErr(r) THEN r
                         ELSE UpdateItems(SetItem(initial, key, r), other, Tail(keys))
            ELSE IF ~IsMapping(initial)
                 THEN Err("TypeError")        \* item assignment on an int, list, ...
                 ELSE UpdateItems(SetItem(initial, key, value), other, Tail(keys))

UpdateDict(initial, other) ==
    IF ~IsMapping(other) THEN Err("AttributeError")   \* other.items()
    ELSE UpdateItems(initial, other, KeyOrder(DOMAIN other.v))

(***************************************************************************)
(* Locale codes                                                            *)
(***************************************************************************)
UpperAlpha == <<"A","B","C","D","E","F","G","H","I","J","K","L","M",
                "N","O","P","Q","R","S","T","U","V","W","X","Y","Z">>
LowerAlpha == <<"a","b","c","d","e","f","g","h","i","j","k","l","m",
                "n","o","p","q","r","s","t","u","v","w","x","y","z">>

LowerChar(c) ==
    IF \E i \in DOMAIN UpperAlpha : UpperAlpha[i] = c
    THEN LowerAlpha[CHOOSE i \in DOMAIN UpperAlpha : UpperAlpha[i] = c]
    ELSE c

RECURSIVE Lower(_)
\* str.lower()
Lower(s) == IF s = <<>> THEN <<>> ELSE <<LowerChar(Head(s))>> \o Lower(Tail(s))

\* faulty variant of MasterLocale: the locale code is not split
MasterLocaleWhole(s) == s

\* '-' in locale
HasDash(s) == \E i \in DOMAIN s : s[i] = "-"

\* locale.split('-')[0]
MasterLocale(s) ==
    IF HasDash(s)
    THEN SubSeq(s, 1, (CHOOSE i \in DOMAIN s :
                          s[i] = "-" /\ \A j \in 1..(i - 1) : s[j] # "-") - 1)
    ELSE s

\* settings.SUPPORTED_LOCALES (mimesis/settings.py): the keys of the table
SUPPORTED_LOCALES == {<<"e","n">>, <<"e","n","-","g","b">>}

\* locale arguments the callers pass
LocaleArgs == {<<"e","n">>, <<"E","N">>, <<"e","n","-","G","B">>, <<"x","x">>}
Files == {"f", "g"}

(***************************************************************************)
(* The data directory and get_data                                         *)
(***************************************************************************)
Missing == [t |-> "missing", v |-> 0]      \* no such file
Malformed == [t |-> "malformed", v |-> 0]  \* a file that is not JSON

DocA == Map([k \in {"a"} |-> Num(1)])
DocB == Map([k \in {"a"} |-> Map([j \in {"b"} |-> Num(2)])])
DocC == Map([k \in {"a", "b"} |->
            IF k = "a" THEN Map([j \in {"c"} |-> Num(1)]) ELSE SeqDoc(<<1>>)])
FsContents == {Missing, Malformed, DocA, DocB, DocC}
\* what a data file may hold: every content for file "f", and two documents
\* for the second file, which keeps the product of the two small
ContentsOf(file) == IF file = "f" THEN FsContents ELSE {DocA, DocC}

\* faulty variant of GetData: a missing regional file falls back to the base locale's
GetDataFallback(locale_name, file) ==
    LET name == IF <<locale_name, file>> \in DOMAIN fs /\ fs[<<locale_name, file>>] # Missing
                THEN locale_name ELSE MasterLocale(locale_name)
    IN IF <<name, file>> \notin DOMAIN fs THEN Err("FileNotFoundError")
       ELSE LET c == fs[<<name, file>>]
            IN CASE c = Missing -> Err("FileNotFoundError")
                 [] c = Malformed -> Err("JSONDecodeError")
                 [] OTHER -> c

\* faulty variant of GetData: a file that cannot be parsed yields an empty document
GetDataLenient(locale_name, file) ==
    IF <<locale_name, file>> \notin DOMAIN fs THEN Err("FileNotFoundError")
    ELSE LET c == fs[<<locale_name, file>>]
         IN CASE c = Missing -> Err("FileNotFoundError")
              [] c = Malformed -> EmptyMap
              [] OTHER -> c

\* open(PATH/locale_name/file) and json.load
GetData(locale_name, file) ==
    IF <<locale_name, file>> \notin DOMAIN fs THEN Err("FileNotFoundError")
    ELSE LET c == fs[<<locale_name, file>>]
         IN CASE c = Missing -> Err("FileNotFoundError")
              [] c = Malformed -> Err("JSONDecodeError")
              [] OTHER -> c

(***************************************************************************)
(* pull, called sequentially                                               *)
(***************************************************************************)
\* an object reference: objects are named by the call that created them
Ref(thread, key) == [by |-> thread, key |-> key]

\* faulty variant of LoadBase: the base document is the object cached for the base
\* locale when there is one, so the merge updates that object in place
LoadBaseShared(thread, key, master) ==
    IF <<key[1], master>> \in DOMAIN cache /\ key[2] # master
    THEN [ref |-> cache[<<key[1], master>>], doc |-> heap[cache[<<key[1], master>>]]]
    ELSE [ref |-> Ref(thread, key), doc |-> GetData(master, key[1])]

\* data = get_data(master_locale): json.load builds a new object on every call
LoadBase(thread, key, master) ==
    [ref |-> Ref(thread, key), doc |-> GetData(master, key[1])]

\* the body of pull, run by `thread` for the call `key` = <<file, locale>>:
\* the outcome, the object that holds it and what the call did
PullBody(thread, key) ==
    LET file == key[1]
        locale == Lower(key[2])
    IN IF locale \notin SUPPORTED_LOCALES
       THEN [result |-> Err("UnsupportedLocale"), ref |-> Ref(thread, key),
             reads |-> 0, merged |-> FALSE]
       ELSE LET data == LoadBase(thread, key, MasterLocale(locale))
            IN IF IsErr(data.doc)
               THEN [result |-> data.doc, ref |-> data.ref, reads |-> 1, merged |-> FALSE]
               ELSE IF ~HasDash(locale)
               THEN [result |-> data.doc, ref |-> data.ref, reads |-> 1, merged |-> FALSE]
               ELSE LET other == GetData(locale, file)
                    IN IF IsErr(other)
                       THEN [result |-> other, ref |-> data.ref, reads |-> 2,
                             merged |-> FALSE]
                       ELSE [result |-> UpdateDict(data.doc, other), ref |-> data.ref,
                             reads |-> 2, merged |-> TRUE]

\* f with x mapped to y
Put(f, x, y) == [k \in (DOMAIN f) \cup {x} |-> IF k = x THEN y ELSE f[k]]

NoCall == [file |-> "", locale |-> <<>>, hit |-> FALSE, reads |-> 0,
           merged |-> FALSE, result |-> None]

\* faulty variant of CacheKey: the locale is lower-cased before the cache is consulted
CacheKeyLowered(file, locale) == <<file, Lower(locale)>>

\* the key functools.lru_cache makes of the call's arguments
CacheKey(file, locale) == <<file, locale>>

\* faulty variant of CacheStore: lru_cache(maxsize=1), which evicts the older entry
CacheStoreEvicting(c, key, ref) == [k \in {key} |-> ref]

\* cache[key] = result, with maxsize=None: nothing is evicted
CacheStore(c, key, ref) == Put(c, key, ref)

\* the lru_cache wrapper (maxsize=None) around pull
Pull(file, locale) ==
    LET key == CacheKey(file, locale)
    IN /\ IF key \in DOMAIN cache
          THEN /\ last' = [file |-> file, locale |-> locale, hit |-> TRUE, reads |-> 0,
                           merged |-> FALSE, result |-> heap[cache[key]]]
               /\ UNCHANGED <<cache, heap>>
          ELSE LET out == PullBody(0, key)
               IN /\ last' = [file |-> file, locale |-> locale, hit |-> FALSE,
                              reads |-> out.reads, merged |-> out.merged,
                              result |-> out.result]
                  /\ IF IsErr(out.result)
                     THEN UNCHANGED <<cache, heap>>
                     ELSE /\ heap' = Put(heap, out.ref, out.result)
                          /\ cache' = CacheStore(cache, key, out.ref)
       /\ UNCHANGED <<fs, th, sslCtx, saved, dl, mInitial, mOther, mResult>>

NoDownload == [url |-> [none |-> TRUE, s |-> <<>>], save_path |-> <<>>,
               retrieve |-> "not called", result |-> [none |-> TRUE, s |-> <<>>],
               raised |-> "", called |-> FALSE]

\* the state before any call of pull
InitPull == cache = <<>> /\ heap = <<>> /\ last = NoCall
InitThreads == th = <<>>
InitDownload == sslCtx = "verified" /\ saved = {} /\ dl = NoDownload
InitUpdate == mInitial = None /\ mOther = None /\ mResult = None
InitFs ==
    /\ fs \in [SUPPORTED_LOCALES \X Files -> FsContents]
    /\ \A p \in DOMAIN fs : fs[p] \in ContentsOf(p[2])

Init == InitFs /\ InitPull /\ InitThreads /\ InitDownload /\ InitUpdate

Next == \E file \in Files, locale \in LocaleArgs : Pull(file, locale)

Spec == Init /\ [][Next]_vars

(***************************************************************************)
(* Properties of pull called sequentially                                  *)
(***************************************************************************)
RECURSIVE BeforeDash(_)
\* the part of a locale code before its first '-', character by character
BeforeDash(s) ==
    IF s = <<>> \/ Head(s) = "-" THEN <<>> ELSE <<Head(s)>> \o BeforeDash(Tail(s))

IsComposite(s) == BeforeDash(s) # s
Called == last # NoCall
\* the document stored in the data directory, if one is
IsDoc(c) == c.t \in {"num", "seq", "map"}
Stored(dir, file) == IF <<dir, file>> \in DOMAIN fs THEN fs[<<dir, file>>] ELSE Missing
Cached(key) == heap[cache[key]]
SimpleKeys == {k \in DOMAIN cache : ~IsComposite(Lower(k[2]))}
CompositeKeys == {k \in DOMAIN cache : IsComposite(Lower(k[2]))}

\* C1: whatever pulls came before, every cache entry of a simple (base)
\* locale holds exactly the document stored in <data-root>/base/F, and every
\* pull(F, base) returns the outcome of parsing that file.
InvBaseUnaffected ==
    /\ \A k \in SimpleKeys : Cached(k) = Stored(Lower(k[2]), k[1])
    /\ (Called /\ Lower(last.locale) \in SUPPORTED_LOCALES /\ ~IsComposite(Lower(last.locale)))
          => \/ last.result = Stored(Lower(last.locale), last.file)
             \/ IsErr(last.result) /\ ~IsDoc(Stored(Lower(last.locale), last.file))

\* C1 witness: pull(F, base) served after pull(F, base-region) was computed
\* and cached with a document that differs from the base document.
WitBaseAfterRegion ==
    /\ Called /\ ~IsComposite(last.locale) /\ ~IsErr(last.result)
    /\ \E k \in CompositeKeys :
          /\ k[1] = last.file
          /\ BeforeDash(Lower(k[2])) = last.locale
          /\ Cached(k) # last.result

\* C2: a cache entry is never evicted and never changes, and a pull whose
\* arguments already have an entry is a hit: it returns the cached document,
\* reads no file and merges nothing.
MemoizedStep ==
    /\ \A k \in DOMAIN cache : k \in DOMAIN cache' /\ heap'[cache'[k]] = Cached(k)
    /\ (last' # NoCall /\ <<last'.file, last'.locale>> \in DOMAIN cache)
          => /\ last'.hit /\ last'.reads = 0 /\ ~last'.merged
             /\ last'.result = Cached(<<last'.file, last'.locale>>)
PropMemoized == [][MemoizedStep]_vars

\* C2 witness: a hit on one key while the cache holds entries of other keys.
WitHitAmongOthers ==
    /\ Called /\ last.hit /\ Cardinality(DOMAIN cache) >= 3
    /\ last.result = Cached(<<last.file, last.locale>>)

\* the outcome of pull(F, base) in the current state
BaseOutcome(file, base) ==
    IF <<file, base>> \in DOMAIN cache THEN Cached(<<file, base>>) ELSE GetData(base, file)

\* C3: where both data files hold documents, pull(F, base-region) is
\* update_dict(pull(F, base), parse(<data-root>/base-region/F)), as a returned
\* document and as a cache entry (a merge that raises makes the pull raise
\* the same exception).
MergedOf(file, locale) ==
    UpdateDict(BaseOutcome(file, BeforeDash(locale)), Stored(locale, file))
BothStored(file, locale) ==
    IsDoc(Stored(BeforeDash(locale), file)) /\ IsDoc(Stored(locale, file))
InvCaseSharesEntry ==
    (Called /\ ~last.hit)
       => \A k \in DOMAIN cache :
             (k[1] = last.file /\ Lower(k[2]) = Lower(last.locale))
                => k = <<last.file, last.locale>>

\* C4 amended: the cache is keyed by the locale exactly as passed.  A
\* successful pull leaves an entry under its own spelling; entries whose
\* locales differ only in letter case are separate objects holding equal
\* documents; and a call whose own spelling has no entry yet is computed,
\* reading the data directory, whatever other spellings are cached.
CaseStep ==
    /\ (last' # NoCall /\ ~IsErr(last'.result))
          => <<last'.file, last'.locale>> \in DOMAIN cache'
    /\ \A k1, k2 \in DOMAIN cache' :
          (k1[1] = k2[1] /\ Lower(k1[2]) = Lower(k2[2]))
             => /\ heap'[cache'[k1]] = heap'[cache'[k2]]
                /\ (k1 # k2 => cache'[k1] # cache'[k2])
    /\ (/\ last' # NoCall
        /\ <<last'.file, last'.locale>> \notin DOMAIN cache
        /\ Lower(last'.locale) \in SUPPORTED_LOCALES)
          => ~last'.hit /\ last'.reads >= 1
PropCaseSeparateEntries == [][CaseStep]_vars

\* C4 witness: two entries of one file whose locales differ only in case, the
\* second computed by its own read of the data file.
WitCaseTwoEntries ==
    /\ Called /\ ~last.hit /\ last.reads >= 1 /\ ~IsErr(last.result)
    /\ \E k \in DOMAIN cache :
          /\ k[1] = last.file /\ k[2] # last.locale
          /\ Lower(k[2]) = Lower(last.locale)

\* the calls that cannot succeed: an unsupported locale, or a data file the
\* call needs that is missing or malformed
MustFail(file, locale) ==
    \/ Lower(locale) \notin SUPPORTED_LOCALES
    \/ ~IsDoc(Stored(BeforeDash(Lower(locale)), file))
    \/ IsComposite(Lower(locale)) /\ ~IsDoc(Stored(Lower(locale), file))

\* C5: a pull that cannot succeed raises, and a pull that raises stores
\* nothing: the cache and the cached documents are as before the call, and the
\* call was not served from the cache (it validated and, for a supported
\* locale, read the data directory).
FailedStep ==
    (last' # NoCall /\ (IsErr(last'.result) \/ MustFail(last'.file, last'.locale)))
       => /\ IsErr(last'.result)
          /\ cache' = cache /\ heap' = heap
          /\ ~last'.hit
          /\ (Lower(last'.locale) \in SUPPORTED_LOCALES => last'.reads >= 1)
PropFailedStoresNothing == [][FailedStep]_vars

\* C5 witness: a failed pull (here a malformed regional file, read after the
\* base file) in a state where the cache already holds entries.
WitFailedPull ==
    /\ Called /\ last.result = Err("JSONDecodeError") /\ last.reads > 1
    /\ DOMAIN cache # {}
    /\ <<last.file, last.locale>> \notin DOMAIN cache

\* C6: for a supported composite locale whose base file holds a document and
\* whose regional file is missing, pull raises FileNotFoundError and the
\* cache never holds an entry for it.
RegionMissing(file, locale) ==
    /\ locale \in SUPPORTED_LOCALES /\ IsComposite(locale)
    /\ IsDoc(Stored(BeforeDash(locale), file))
    /\ Stored(locale, file) = Missing
InvNoBaseFallback ==
    /\ \A k \in DOMAIN cache : ~RegionMissing(k[1], Lower(k[2]))
    /\ (Called /\ RegionMissing(last.file, Lower(last.locale)))
          => last.result = Err("FileNotFoundError")

\* C6 witness: such a pull, made while the base document is cached.
WitRegionMissing ==
    /\ Called /\ RegionMissing(last.file, Lower(last.locale))
    /\ <<last.file, BeforeDash(Lower(last.locale))>> \in DOMAIN cache

(***************************************************************************)
(* update_dict on its own                                                  *)
(***************************************************************************)
InitMerge ==
    /\ fs = <<>> /\ InitPull /\ InitThreads /\ InitDownload
    /\ mInitial \in Maps2
    /\ mOther \in Maps2
    /\ mResult = None

MergeCall ==
    /\ mResult = None
    /\ mResult' = UpdateDict(mInitial, mOther)
    /\ UNCHANGED <<fs, cache, heap, last, th, sslCtx, saved, dl, mInitial, mOther>>

SpecMerge == InitMerge /\ [][MergeCall]_vars

Returned == mResult # None
\* the keys whose target value is a scalar or sequence and whose override is a mapping
ReplacedKeys ==
    {k \in DOMAIN mOther.v :
        HasKey(mInitial, k) /\ ~IsMapping(mInitial.v[k]) /\ IsMapping(mOther.v[k])}

\* C7: where a key's target value is a scalar or sequence and its override is
\* a mapping, update_dict completes without error and the result holds the
\* override under that key.
InvMappingReplacesScalar ==
    (Returned /\ ReplacedKeys # {})
       => /\ ~IsErr(mResult)
          /\ \A k \in ReplacedKeys : mResult.v[k] = mOther.v[k]

\* the four cases of a key of the merged mapping
MergeCases(result) ==
    /\ \A k \in (DOMAIN mInitial.v) \ (DOMAIN mOther.v) :
          HasKey(result, k) /\ result.v[k] = mInitial.v[k]
    /\ \A k \in DOMAIN mOther.v :
          /\ HasKey(result, k)
          /\ ~IsMapping(mOther.v[k]) => result.v[k] = mOther.v[k]
          /\ (HasKey(mInitial, k) /\ IsMapping(mInitial.v[k]) /\ IsMapping(mOther.v[k]))
                => result.v[k] = UpdateDict(mInitial.v[k], mOther.v[k])
          /\ (~HasKey(mInitial, k) /\ IsMapping(mOther.v[k]))
                => result.v[k] = UpdateDict(EmptyMap, mOther.v[k])

\* C8: for mappings target and overrides, update_dict returns a mapping whose
\* keys follow the four cases: kept from the target, replaced by a
\* non-mapping override, merged recursively, or merged into an empty mapping.
InvMergeReturnsCases == Returned => (IsMapping(mResult) /\ MergeCases(mResult))

\* every call of update_dict that does return follows the four cases
InvMergeCasesWhenReturned == (Returned /\ ~IsErr(mResult)) => MergeCases(mResult)

(***************************************************************************)
(* download_image                                                          *)
(***************************************************************************)
\* an optional string argument: None, or a string
PyNone == [none |-> TRUE, s |-> <<>>]
Str(s) == [none |-> FALSE, s |-> s]

RECURSIVE AfterLastSlash(_)
\* url.rsplit('/')[-1]
AfterLastSlash(s) ==
    IF s = <<>> THEN <<>>
    ELSE IF s[Len(s)] = "/" THEN <<>>
    ELSE AfterLastSlash(SubSeq(s, 1, Len(s) - 1)) \o <<s[Len(s)]>>

\* urllib's test for a url with a scheme: a ':' after at least one character,
\* none of them a '/'
HasScheme(s) ==
    \E i \in DOMAIN s : /\ s[i] = ":" /\ i > 1
                        /\ \A j \in 1..(i - 1) : s[j] \notin {"/", ":"}

Urls == {PyNone, Str(<<>>), Str(<<"a">>), Str(<<"h",":","/","a">>),
         Str(<<"h",":","/","d","/","b">>), Str(<<"h",":","/","d","/">>)}
SavePaths == {<<>>, <<"d","/">>}

\* request.urlretrieve(url, filename): ValueError for a url without a scheme,
\* else the transfer, which succeeds and writes the file, or fails
UrlRetrieve(url, filename, transferred) ==
    IF ~HasScheme(url) THEN [outcome |-> "ValueError", files |-> saved]
    ELSE IF transferred THEN [outcome |-> "ok", files |-> saved \cup {filename}]
    ELSE [outcome |-> "URLError", files |-> saved]

\* download_image(url, save_path, unverified_ctx); `transferred` is whether
\* the remote end serves the url
DownloadImage(url, save_path, unverified_ctx, transferred) ==
    /\ sslCtx' = IF unverified_ctx THEN "unverified" ELSE sslCtx
    /\ IF ~url.none        \* url is not None
       THEN LET image_name == AfterLastSlash(url.s)
                got == UrlRetrieve(url.s, save_path \o image_name, transferred)
            IN /\ saved' = got.files
               /\ dl' = [url |-> url, save_path |-> save_path, retrieve |-> got.outcome,
                         result |-> IF got.outcome = "ok" THEN Str(image_name) ELSE PyNone,
                         raised |-> IF got.outcome = "ok" THEN "" ELSE got.outcome,
                         called |-> TRUE]
       ELSE /\ saved' = saved
            /\ dl' = [url |-> url, save_path |-> save_path, retrieve |-> "not called",
                      result |-> PyNone, raised |-> "", called |-> TRUE]
    /\ UNCHANGED <<fs, cache, heap, last, th, mInitial, mOther, mResult>>

InitDl == fs = <<>> /\ InitPull /\ InitThreads /\ InitDownload /\ InitUpdate

NextDl ==
    \E url \in Urls, save_path \in SavePaths, unverified_ctx \in BOOLEAN,
       transferred \in BOOLEAN :
          DownloadImage(url, save_path, unverified_ctx, transferred)

SpecDl == InitDl /\ [][NextDl]_vars

\* C9: download_image returns None without calling urlretrieve when url is
\* None or empty, and otherwise (the transfer succeeding) returns the final
\* path segment of url, the file being saved under destinationDir.
InvDownloadResult ==
    dl.called =>
       IF dl.url.none \/ dl.url.s = <<>>
       THEN dl.result = PyNone /\ dl.raised = "" /\ dl.retrieve = "not called"
       ELSE dl.retrieve = "ok"
               => /\ dl.result = Str(AfterLastSlash(dl.url.s))
                  /\ (dl.save_path \o AfterLastSlash(dl.url.s)) \in saved

(***************************************************************************)
(* pull, called by several threads                                         *)
(*                                                                         *)
(* The lru_cache wrapper looks the key up, calls pull on a miss and stores *)
(* the result; it holds no lock around the call, so threads interleave     *)
(* between the lookup, each file read, each iteration of update_dict's     *)
(* loop and the store.                                                     *)
(***************************************************************************)
Threads == 1..NumThreads
ConcFiles == {"f"}
ConcLocales == {<<"e","n">>, <<"e","n","-","G","B">>}

Idle == [pc |-> "idle", file |-> "", locale |-> <<>>, hit |-> FALSE,
         other |-> None, keys |-> <<>>, ret |-> None]

KeyOf(t) == CacheKey(th[t].file, th[t].locale)
Without(h, ref) == [r \in (DOMAIN h) \ {ref} |-> h[r]]
Finish(t, hit, ret) ==
    [th EXCEPT ![t] = [@ EXCEPT !.pc = "done", !.hit = hit, !.ret = ret,
                                !.other = None, !.keys = <<>>]]

\* a thread calls pull(file, locale)
Call(t, file, locale) ==
    /\ th[t].pc = "idle"
    /\ th' = [th EXCEPT ![t] = [Idle EXCEPT !.pc = "lookup", !.file = file,
                                            !.locale = locale]]
    /\ UNCHANGED <<fs, cache, heap, last, sslCtx, saved, dl, mInitial, mOther, mResult>>

\* the wrapper's cache lookup
Lookup(t) ==
    /\ th[t].pc = "lookup"
    /\ IF KeyOf(t) \in DOMAIN cache
       THEN th' = Finish(t, TRUE, heap[cache[KeyOf(t)]])
       ELSE th' = [th EXCEPT ![t].pc = "base"]
    /\ UNCHANGED <<fs, cache, heap, last, sslCtx, saved, dl, mInitial, mOther, mResult>>

\* faulty variant of LoadBaseStep: the base document is put in the cache as
\* soon as it is loaded, before the regional overrides are merged into it
LoadBaseStepPublishing(t) ==
    /\ th[t].pc = "base"
    /\ LET locale == Lower(th[t].locale)
           data == LoadBase(t, KeyOf(t), MasterLocale(locale))
       IN IF locale \notin SUPPORTED_LOCALES
          THEN th' = Finish(t, FALSE, Err("UnsupportedLocale")) /\ UNCHANGED <<heap, cache>>
          ELSE IF IsErr(data.doc)
          THEN th' = Finish(t, FALSE, data.doc) /\ UNCHANGED <<heap, cache>>
          ELSE /\ heap' = Put(heap, data.ref, data.doc)
               /\ cache' = Put(cache, KeyOf(t), data.ref)
               /\ th' = [th EXCEPT ![t].pc = IF HasDash(locale) THEN "region" ELSE "store"]
    /\ UNCHANGED <<fs, last, sslCtx, saved, dl, mInitial, mOther, mResult>>

\* locale.lower(), the SUPPORTED_LOCALES test and data = get_data(master_locale)
LoadBaseStep(t) ==
    /\ th[t].pc = "base"
    /\ LET locale == Lower(th[t].locale)
           data == LoadBase(t, KeyOf(t), MasterLocale(locale))
       IN IF locale \notin SUPPORTED_LOCALES
          THEN th' = Finish(t, FALSE, Err("UnsupportedLocale")) /\ heap' = heap
          ELSE IF IsErr(data.doc)
          THEN th' = Finish(t, FALSE, data.doc) /\ heap' = heap
          ELSE /\ heap' = Put(heap, data.ref, data.doc)
               /\ th' = [th EXCEPT ![t].pc = IF HasDash(locale) THEN "region" ELSE "store"]
    /\ UNCHANGED <<fs, cache, last, sslCtx, saved, dl, mInitial, mOther, mResult>>

\* get_data(locale), the argument of update_dict
LoadRegionStep(t) ==
    /\ th[t].pc = "region"
    /\ LET other == GetData(Lower(th[t].locale), th[t].file)
       IN IF IsErr(other)
          THEN th' = Finish(t, FALSE, other) /\ heap' = Without(heap, Ref(t, KeyOf(t)))
          ELSE IF ~IsMapping(other)
          THEN /\ th' = Finish(t, FALSE, UpdateDict(heap[Ref(t, KeyOf(t))], other))
               /\ heap' = Without(heap, Ref(t, KeyOf(t)))
          ELSE /\ th' = [th EXCEPT ![t] = [@ EXCEPT !.pc = "merge", !.other = other,
                                                    !.keys = KeyOrder(DOMAIN other.v)]]
               /\ heap' = heap
    /\ UNCHANGED <<fs, cache, last, sslCtx, saved, dl, mInitial, mOther, mResult>>

\* one iteration of update_dict's loop over other.items(), which updates the
\* object `data` in place; after the last one update_dict returns
MergeStep(t) ==
    /\ th[t].pc = "merge"
    /\ LET ref == Ref(t, KeyOf(t))
       IN IF th[t].keys = <<>>
          THEN th' = [th EXCEPT ![t].pc = "store"] /\ heap' = heap
          ELSE LET r == UpdateItems(heap[ref], th[t].other, <<Head(th[t].keys)>>)
               IN IF IsErr(r)
                  THEN th' = Finish(t, FALSE, r) /\ heap' = Without(heap, ref)
                  ELSE /\ heap' = Put(heap, ref, r)
                       /\ th' = [th EXCEPT ![t].keys = Tail(@)]
    /\ UNCHANGED <<fs, cache, last, sslCtx, saved, dl, mInitial, mOther, mResult>>

\* pull returns data and the wrapper stores it: cache[key] = result.  The
\* object an earlier store left under the key is released.
StoreStep(t) ==
    /\ th[t].pc = "store"
    /\ LET ref == Ref(t, KeyOf(t))
           kept == IF KeyOf(t) \in DOMAIN cache /\ cache[KeyOf(t)] # ref
                   THEN Without(heap, cache[KeyOf(t)]) ELSE heap
       IN /\ cache' = CacheStore(cache, KeyOf(t), ref)
          /\ heap' = kept
          /\ th' = Finish(t, FALSE, heap[ref])
    /\ UNCHANGED <<fs, last, sslCtx, saved, dl, mInitial, mOther, mResult>>

\* the caller takes the result (or the exception)
Return(t) ==
    /\ th[t].pc = "done"
    /\ th' = [th EXCEPT ![t] = Idle]
    /\ UNCHANGED <<fs, cache, heap, last, sslCtx, saved, dl, mInitial, mOther, mResult>>

InitConc ==
    /\ fs \in [SUPPORTED_LOCALES \X ConcFiles -> FsContents]
    /\ InitPull /\ InitDownload /\ InitUpdate
    /\ th = [t \in Threads |-> Idle]

NextConc ==
    \E t \in Threads :
       \/ \E file \in ConcFiles, locale \in ConcLocales : Call(t, file, locale)
       \/ Lookup(t)
       \/ LoadBaseStep(t)
       \/ LoadRegionStep(t)
       \/ MergeStep(t)
       \/ StoreStep(t)
       \/ Return(t)

SpecConc == InitConc /\ [][NextConc]_vars

\* the outcome of the call made alone
SeqOutcome(key) == PullBody(0, key).result

\* C10: under every interleaving, each finished call returns the outcome of
\* the call made alone, every cache entry holds that document (never a
\* partially merged one), and a key whose call returned a document has its
\* entry in the cache.
InvConcurrentConsistent ==
    /\ \A k \in DOMAIN cache : Cached(k) = SeqOutcome(k)
    /\ \A t \in Threads :
          th[t].pc = "done"
             => /\ th[t].ret = SeqOutcome(KeyOf(t))
                /\ ~IsErr(th[t].ret) => KeyOf(t) \in DOMAIN cache

\* C10 witness: two threads have both computed and stored the same regional
\* key, whose merged document differs from the base document.
WitBothComputed ==
    \E t1, t2 \in Threads :
       /\ t1 # t2 /\ th[t1].pc = "done" /\ th[t2].pc = "done"
       /\ KeyOf(t1) = KeyOf(t2) /\ ~th[t1].hit /\ ~th[t2].hit
       /\ ~IsErr(th[t1].ret)
       /\ IsComposite(Lower(th[t1].locale))
       /\ th[t1].ret # Stored(BeforeDash(Lower(th[t1].locale)), th[t1].file)

====
